---------------------------- MODULE Spec2Model ----------------------------
(***************************************************************************)
(* A model of the MCP process/session managers of secmcp-2:                *)
(*   - MCPClient (src/src/mcp_client.py): configured servers, start/stop,  *)
(*     call_tool, the sequential fan-out enumerate_subdomains_* and the    *)
(*     result consolidator _consolidate_results;                           *)
(*   - MCPManager / AmasseMCPClient (src/src/mcp_adapter.py): register,    *)
(*     connect, disconnect, call_tool, connect_all, disconnect_all;        *)
(*   - main() (src/main.py) and run_reconnaissance()                       *)
(*     (src/src/reconnaissance_agent.py): the start / work / stop scope.   *)
(* Strings that the code compares or sorts (subdomain names) are sequences *)
(* of code points, so that ordering and equality are computed, not assumed.*)
(***************************************************************************)
EXTENDS Integers, Sequences, FiniteSets, TLC

VARIABLES
    process,    \* per server name: the handle held by the client object and its liveness
    orphans,    \* per server name: live child processes no handle refers to any more
    sent,       \* per server name: the requests written to the handle's stdin, in order
    status,     \* AmasseMCPClient.status per registered name
    configs,    \* MCPManager.configs: name -> command, NoCfg when not registered
    order,      \* insertion order of MCPManager.clients (dict iteration order)
    enabled,    \* MCPClient.servers[name].enabled, fixed by the configuration file
    impl,       \* which implementation this behaviour runs: MCPClient or MCPManager
    targets,    \* the fan-out in progress: its method tag and its `servers` argument
    pc,         \* where the single caller is inside the operation in progress
    cur,        \* the server the operation in progress is working on
    queue,      \* the servers a loop (connect_all, fan-out, ...) still has to visit
    results,    \* the dict a loop builds, as a sequence of <<name, value>> in insertion order
    spawnLog,   \* what happened to each server's spawn during the last start/connect loop
    ret,        \* the value the last finished operation returned to its caller
    raised,     \* TRUE when the operation that just ended let an exception escape
    scope,      \* main()/run_reconnaissance(): bookkeeping of the try/finally scope
    spawned,    \* per server name: the command the handle's child process was spawned with
    tasks,      \* concurrent callers: per task, where it is inside its call_tool
    stdout,     \* per server name: the response lines written and not yet read
    stdio       \* StdIoMCPClient: the invocation in progress, its transport and session

vars == <<process, orphans, sent, status, configs, order, enabled, impl,
          targets, pc, cur, queue, results, spawnLog, ret, raised, scope,
          spawned, tasks, stdout, stdio>>

---------------------------------------------------------------------------
(* Bounds of the model *)

\* longest per-server subdomain list drawn for the consolidator
MaxList == 2
\* longest explicit `servers` list handed to a fan-out
MaxTargets == 2
\* most requests written to one server's stdin
MaxSent == 2
\* most unreferenced live processes tracked per server name
MaxOrphans == 1
\* most transports left open by earlier StdIoMCPClient invocations that are counted
MaxLeaked == 2

---------------------------------------------------------------------------
(* Names and values *)

\* the server names of the configuration / the registry
Servers == {"A", "B"}
\* a name no configuration holds
Unknown == "Z"
Names == Servers \cup {Unknown}

None == "None"
NoCfg == "NoCfg"

\* the command start_server spawns for a server of type "amass"
ClientCmd == "amass_mcp_server"

\* subdomain names as code-point sequences: "A", "a", "ab", "b"
Strs == {<<65>>, <<97>>, <<97, 98>>, <<98>>}

\* Python's str <: lexicographic by code point, a proper prefix is smaller
StrLess(x, y) ==
    \/ \E i \in 1..Len(x) :
          /\ i <= Len(y)
          /\ x[i] < y[i]
          /\ \A j \in 1..(i - 1) : x[j] = y[j]
    \/ /\ Len(x) < Len(y)
       /\ \A j \in 1..Len(x) : x[j] = y[j]

\* set(list): the elements of a list
ToSet(l) == {l[i] : i \in DOMAIN l}

RECURSIVE SortedListDescending(_)
\* a sort with the comparison the wrong way round
SortedListDescending(S) ==
    IF S = {} THEN <<>>
    ELSE LET m == CHOOSE x \in S : \A y \in S \ {x} : StrLess(y, x)
         IN  <<m>> \o SortedListDescending(S \ {m})

RECURSIVE SortedList(_)
\* sorted(list(S)): the elements of S in ascending str order
SortedList(S) ==
    IF S = {} THEN <<>>
    ELSE LET m == CHOOSE x \in S : \A y \in S \ {x} : StrLess(x, y)
         IN  <<m>> \o SortedList(S \ {m})

\* lists of at most n subdomain names
ListsUpTo(n) == UNION {[1..k -> Strs] : k \in 0..n}

(***************************************************************************)
(* What call_tool hands back to the fan-out: a parsed JSON value.          *)
(*   isdict   isinstance(result, dict)                                     *)
(*   success  truthiness of result.get("success", False)                   *)
(*   hasSubs / subs    "subdomains" in result, and its value               *)
(*   hasComb / comb    "combined_subdomains" in result, and its value      *)
(*   iterable FALSE when the chosen payload is not a list of strings       *)
(*   tag      distinguishes values that differ in other keys only          *)
(***************************************************************************)
Value(d, s, hs, l, hc, c, it, n, t) ==
    [isdict |-> d, success |-> s, hasSubs |-> hs, subs |-> l,
     hasComb |-> hc, comb |-> c, iterable |-> it, nested |-> n, tag |-> t]

\* {"error": "..."}: the failure dict call_tool builds itself
ErrorDict(msg) == Value(TRUE, FALSE, FALSE, <<>>, FALSE, <<>>, TRUE, <<>>, msg)
\* {"success": true, "subdomains": l}
OkSubs(l) == Value(TRUE, TRUE, TRUE, l, FALSE, <<>>, TRUE, <<>>, "ok")
\* {"success": true, "combined_subdomains": l}
OkComb(l) == Value(TRUE, TRUE, FALSE, <<>>, TRUE, l, TRUE, <<>>, "ok")
\* {"success": true, "subdomains": l1, "combined_subdomains": l2}
OkBoth(l1, l2) == Value(TRUE, TRUE, TRUE, l1, TRUE, l2, TRUE, <<>>, "ok")
\* {"success": true}: neither list
OkBare == Value(TRUE, TRUE, FALSE, <<>>, FALSE, <<>>, TRUE, <<>>, "ok")
\* {"success": false, "subdomains": l}
FailSubs(l) == Value(TRUE, FALSE, TRUE, l, FALSE, <<>>, TRUE, <<>>, "fail")
\* {"id": 1, "result": {"subdomains": l}}: no top-level "success" key
RpcResult(l) == Value(TRUE, FALSE, FALSE, <<>>, FALSE, <<>>, TRUE, l, "rpc")
\* a JSON value that is no object, e.g. [1, 2]
NonDict == Value(FALSE, FALSE, FALSE, <<>>, FALSE, <<>>, TRUE, <<>>, "list")
\* {"success": true, "subdomains": 5}: set.update raises TypeError
OkNotIterable == Value(TRUE, TRUE, TRUE, <<>>, FALSE, <<>>, FALSE, <<>>, "ok")

---------------------------------------------------------------------------
(* MCPClient._consolidate_results *)

\* the payload set.update is called with for a successful result, if any
Payload(v) ==
    IF v.hasSubs THEN ToSet(v.subs)
    ELSE IF v.hasComb THEN ToSet(v.comb)
    ELSE {}

\* line 247: the test that puts a server in successful_servers
IsSuccess(v) == v.isdict /\ v.success

\* TRUE when all_subdomains.update(...) raises for this result
UpdateRaises(v) == IsSuccess(v) /\ (v.hasSubs \/ v.hasComb) /\ ~v.iterable

RECURSIVE Partition(_, _)
\* the names of `res` (a sequence of <<name, value>>) whose value passes / fails
\* the success test, in iteration order
Partition(res, want) ==
    IF res = <<>> THEN <<>>
    ELSE LET h == Head(res)
         IN  (IF IsSuccess(h[2]) = want THEN <<h[1]>> ELSE <<>>)
                 \o Partition(Tail(res), want)

\* (mutant) the lists of the failed servers are merged as well
AllSubdomainsAnyServer(res) ==
    UNION {Payload(res[i][2]) : i \in DOMAIN res}

\* all_subdomains after the loop
AllSubdomains(res) ==
    UNION {Payload(res[i][2]) : i \in {j \in DOMAIN res : IsSuccess(res[j][2])}}

\* (mutant) the aggregate counts any result at all as a success
ConsolidateResultsAnyResult(res, method) ==
    IF \E i \in DOMAIN res : UpdateRaises(res[i][2])
    THEN [raised |-> TRUE]
    ELSE [raised |-> FALSE,
          method |-> method,
          success |-> Len(res) > 0,
          subdomains |-> SortedList(AllSubdomains(res)),
          total_count |-> Cardinality(AllSubdomains(res)),
          successful_servers |-> Partition(res, TRUE),
          failed_servers |-> Partition(res, FALSE),
          server_results |-> res]

\* (mutant) the aggregate keeps the raw results of the successful servers only
ConsolidateResultsDropsFailed(res, method) ==
    IF \E i \in DOMAIN res : UpdateRaises(res[i][2])
    THEN [raised |-> TRUE]
    ELSE [raised |-> FALSE,
          method |-> method,
          success |-> Len(Partition(res, TRUE)) > 0,
          subdomains |-> SortedList(AllSubdomains(res)),
          total_count |-> Cardinality(AllSubdomains(res)),
          successful_servers |-> Partition(res, TRUE),
          failed_servers |-> Partition(res, FALSE),
          server_results |-> SelectSeq(res, LAMBDA e : IsSuccess(e[2]))]

\* the aggregate dict, or the exception that escapes
ConsolidateResults(res, method) ==
    IF \E i \in DOMAIN res : UpdateRaises(res[i][2])
    THEN [raised |-> TRUE]
    ELSE [raised |-> FALSE,
          method |-> method,
          success |-> Len(Partition(res, TRUE)) > 0,
          subdomains |-> SortedList(AllSubdomains(res)),
          total_count |-> Cardinality(AllSubdomains(res)),
          successful_servers |-> Partition(res, TRUE),
          failed_servers |-> Partition(res, FALSE),
          server_results |-> res]


---------------------------------------------------------------------------
(* Helpers shared by the operations *)

\* d[k] = v on a dict kept as a sequence of <<key, value>> in insertion order:
\* an existing key keeps its position, a new key goes last
DictSet(d, k, v) ==
    IF \E i \in DOMAIN d : d[i][1] = k
    THEN [i \in DOMAIN d |-> IF d[i][1] = k THEN <<k, v>> ELSE d[i]]
    ELSE Append(d, <<k, v>>)

DictKeys(d) == {d[i][1] : i \in DOMAIN d}

DictGet(d, k) == d[CHOOSE i \in DOMAIN d : d[i][1] = k][2]

\* the history of requests written to a stdin stream, kept up to MaxSent entries
Log(l, r) == IF Len(l) < MaxSent THEN Append(l, r) ELSE l

\* process states: no handle, running, SIGKILL sent but not waited for, exited
ProcStates == {"none", "alive", "killed", "exited"}

\* a new child replaces the handle: a still-running old child is left unreferenced
Orphaned(s) ==
    IF process[s] = "alive" /\ orphans[s] < MaxOrphans
    THEN [orphans EXCEPT ![s] = @ + 1] ELSE orphans

\* every child process spawned under name s that is still running
LiveCount(s) == orphans[s] + (IF process[s] = "alive" THEN 1 ELSE 0)

RECURSIVE SeqFilter(_, _)
SeqFilter(q, S) ==
    IF q = <<>> THEN <<>>
    ELSE (IF Head(q) \in S THEN <<Head(q)>> ELSE <<>>) \o SeqFilter(Tail(q), S)

\* the iteration order of MCPClient.servers (the order of the configuration file)
ServerOrder == <<"A", "B">>

Methods == {"passive", "active", "combined"}

NoTargets == [method |-> None, servers |-> <<>>, explicit |-> FALSE]
NoRet == [op |-> None]

\* the callers that may run concurrently on one event loop
Tasks == {"t1", "t2"}

\* a task that is not inside a call;
\* `req` is the position of the task's request on the server's stdin, `ret`
\* the position of the request whose response it returned (0: an error dict)
IdleTask == [pc |-> "idle", op |-> None, server |-> None, req |-> 0, ret |-> 0]
NoTasks == [t \in Tasks |-> IdleTask]

\* a stdout pipe nothing was written to: `next` is the request the server
\* answers next, `buf` the requests whose response lines wait to be read
NoStdout == [s \in Servers |-> [next |-> 1, buf |-> <<>>]]

\* no StdIoMCPClient invocation has been made
NoStdio == [pc |-> "idle", op |-> None, tool |-> None,
            transport |-> "none", session |-> "none",
            localSession |-> FALSE, localTransport |-> FALSE,
            outcome |-> None, leaked |-> 0]

\* the operation in progress has returned: its locals and its result go away
Returned ==
    pc \in {"sa_ret", "st_ret", "fan_ret", "ca_ret", "da_ret", "ct_ret", "rs_ret"}

ReturnEffect ==
    /\ Returned
    /\ pc' = "idle"
    /\ ret' = NoRet
    /\ results' = <<>>
    /\ targets' = NoTargets
    /\ cur' = None
    /\ raised' = FALSE
    /\ UNCHANGED <<process, orphans, sent, status, configs, order, enabled,
                   impl, queue, spawnLog, spawned,
                   tasks, stdout, stdio>>

\* a caller gets the result and goes on
Return == ReturnEffect /\ UNCHANGED scope

---------------------------------------------------------------------------
(* The environment: child processes *)

\* the caller is inside the start-up grace period of a connect / start_server
InGrace == pc \in {"sa_grace", "ca_grace"}

\* the caller is blocked in readline() for the response to a tool call
InCall == pc \in {"call_wait", "mc_wait"}

\* a child process exits on its own (crash, or reaction to SIGTERM); an exit
\* inside the start-up grace period is noted as an early exit, an exit under a
\* waiting tool call as an exit in the call
ProcExit(s) ==
    /\ process[s] = "alive"
    /\ process' = [process EXCEPT ![s] = "exited"]
    /\ spawnLog' = IF InGrace /\ cur = s
                   THEN [spawnLog EXCEPT ![s] = "exited_early"]
                   ELSE IF InCall /\ cur = s
                   THEN [spawnLog EXCEPT ![s] = "exited_in_call"]
                   ELSE spawnLog
    /\ UNCHANGED <<orphans, sent, status, configs, order, enabled, impl,
                   targets, pc, cur, queue, results, ret, raised, scope,
                   spawned,
                   tasks, stdout, stdio>>

\* an unreferenced child process exits on its own
OrphanExit(s) ==
    /\ orphans[s] > 0
    /\ orphans' = [orphans EXCEPT ![s] = @ - 1]
    /\ UNCHANGED <<process, sent, status, configs, order, enabled, impl,
                   targets, pc, cur, queue, results, spawnLog, ret, raised, scope,
                   spawned,
                   tasks, stdout, stdio>>

---------------------------------------------------------------------------
(* MCPClient (src/src/mcp_client.py): start_all_servers, stop_all_servers *)

\* start_all_servers: entry
StartAllEntry ==
    /\ pc = "idle" /\ impl = "client"
    /\ pc' = "sa_loop"
    /\ queue' = ServerOrder
    /\ results' = <<>>
    /\ spawnLog' = [s \in Servers |-> "none"]
    /\ UNCHANGED <<process, orphans, sent, status, configs, order, enabled,
                   impl, targets, cur, ret, raised, spawned,
                   tasks, stdout, stdio>>

\* a caller invokes start_all_servers
StartAllBegin == StartAllEntry /\ UNCHANGED scope

\* start_all_servers: a disabled server gets False without a call to start_server
StartAllSkip ==
    /\ pc = "sa_loop" /\ queue # <<>>
    /\ ~enabled[Head(queue)]
    /\ results' = DictSet(results, Head(queue), FALSE)
    /\ queue' = Tail(queue)
    /\ UNCHANGED <<process, orphans, sent, status, configs, order, enabled,
                   impl, targets, pc, cur, spawnLog, ret, raised, scope,
                   spawned,
                   tasks, stdout, stdio>>

\* start_server up to its first await: the server type is unknown or
\* create_subprocess_exec raises, and start_server returns False
StartSpawnFail ==
    /\ pc = "sa_loop" /\ queue # <<>>
    /\ enabled[Head(queue)]
    /\ results' = DictSet(results, Head(queue), FALSE)
    /\ spawnLog' = [spawnLog EXCEPT ![Head(queue)] = "spawn_failed"]
    /\ queue' = Tail(queue)
    /\ UNCHANGED <<process, orphans, sent, status, configs, order, enabled,
                   impl, targets, pc, cur, ret, raised, scope, spawned,
                   tasks, stdout, stdio>>

\* start_server up to its first await: the child is spawned and server.process
\* is overwritten with the new handle
StartSpawn ==
    /\ pc = "sa_loop" /\ queue # <<>>
    /\ enabled[Head(queue)]
    /\ LET s == Head(queue) IN
         /\ process' = [process EXCEPT ![s] = "alive"]
         /\ orphans' = Orphaned(s)
         /\ sent' = [sent EXCEPT ![s] = <<>>]
         /\ spawnLog' = [spawnLog EXCEPT ![s] = "up"]
         /\ spawned' = [spawned EXCEPT ![s] = ClientCmd]
         /\ cur' = s
    /\ pc' = "sa_grace"
    /\ UNCHANGED <<status, configs, order, enabled, impl, targets, queue,
                   results, ret, raised, scope,
                   tasks, stdout, stdio>>

\* start_server after sleep(1): True exactly when returncode is None
StartCheck ==
    /\ pc = "sa_grace"
    /\ results' = DictSet(results, cur, process[cur] = "alive")
    /\ queue' = Tail(queue)
    /\ pc' = "sa_loop"
    /\ cur' = None
    /\ UNCHANGED <<process, orphans, sent, status, configs, order, enabled,
                   impl, targets, spawnLog, ret, raised, scope, spawned,
                   tasks, stdout, stdio>>

\* start_all_servers: return results
StartAllEnd ==
    /\ pc = "sa_loop" /\ queue = <<>>
    /\ ret' = [op |-> "start_all_servers", value |-> results]
    /\ pc' = "sa_ret"
    /\ UNCHANGED <<process, orphans, sent, status, configs, order, enabled,
                   impl, targets, cur, queue, results, spawnLog, raised,
                   scope, spawned,
                   tasks, stdout, stdio>>

\* stop_all_servers: entry
StopAllEntry ==
    /\ pc = "idle" /\ impl = "client"
    /\ pc' = "st_loop"
    /\ queue' = ServerOrder
    /\ UNCHANGED <<process, orphans, sent, status, configs, order, enabled,
                   impl, targets, cur, results, spawnLog, ret, raised,
                   spawned,
                   tasks, stdout, stdio>>

\* a caller invokes stop_all_servers
StopAllBegin == StopAllEntry /\ UNCHANGED scope

\* stop_server: server.process is None, or terminate() raises ProcessLookupError
\* for a child that has exited and the handler of line 126 logs it
StopNothing ==
    /\ pc = "st_loop" /\ queue # <<>>
    /\ process[Head(queue)] # "alive"
    /\ queue' = Tail(queue)
    /\ UNCHANGED <<process, orphans, sent, status, configs, order, enabled,
                   impl, targets, pc, cur, results, spawnLog, ret, raised,
                   scope, spawned,
                   tasks, stdout, stdio>>

\* stop_server: terminate() a running child, then wait for it up to 5 seconds
StopTerminate ==
    /\ pc = "st_loop" /\ queue # <<>>
    /\ process[Head(queue)] = "alive"
    /\ cur' = Head(queue)
    /\ pc' = "st_wait"
    /\ UNCHANGED <<process, orphans, sent, status, configs, order, enabled,
                   impl, targets, queue, results, spawnLog, ret, raised,
                   scope, spawned,
                   tasks, stdout, stdio>>

\* stop_server: process.wait() returned inside the 5 seconds
StopWaited ==
    /\ pc = "st_wait"
    /\ process[cur] # "alive"
    /\ queue' = Tail(queue)
    /\ pc' = "st_loop"
    /\ cur' = None
    /\ UNCHANGED <<process, orphans, sent, status, configs, order, enabled,
                   impl, targets, results, spawnLog, ret, raised, scope,
                   spawned,
                   tasks, stdout, stdio>>

\* stop_server: asyncio.TimeoutError after 5 seconds, kill() and wait()
StopTimeoutKill ==
    /\ pc = "st_wait"
    /\ process[cur] = "alive"
    /\ process' = [process EXCEPT ![cur] = "exited"]
    /\ queue' = Tail(queue)
    /\ pc' = "st_loop"
    /\ cur' = None
    /\ UNCHANGED <<orphans, sent, status, configs, order, enabled, impl,
                   targets, results, spawnLog, ret, raised, scope, spawned,
                   tasks, stdout, stdio>>

\* stop_all_servers: return
StopAllEnd ==
    /\ pc = "st_loop" /\ queue = <<>>
    /\ ret' = [op |-> "stop_all_servers"]
    /\ pc' = "st_ret"
    /\ UNCHANGED <<process, orphans, sent, status, configs, order, enabled,
                   impl, targets, cur, queue, results, spawnLog, raised,
                   scope, spawned,
                   tasks, stdout, stdio>>

---------------------------------------------------------------------------
(* MCPClient: call_tool and the fan-outs enumerate_subdomains_* *)

\* the response lines a server may write, after json.loads
FanResponses ==
    {OkSubs(<<<<97>>, <<97, 98>>>>), OkComb(<<<<97, 98>>, <<98>>>>),
     FailSubs(<<<<65>>>>), RpcResult(<<<<97>>>>), OkNotIterable}

\* the request call_tool writes: no id, and "\\n" is a backslash and an n
ClientRequest == [method |-> "tools/call", id |-> None, newline |-> FALSE]

\* the `servers` arguments a caller may pass
TargetLists == UNION {[1..k -> Names] : k \in 1..MaxTargets}

\* a caller invokes call_tool(s) directly
CallToolBegin(s) ==
    /\ pc = "idle" /\ impl = "client"
    /\ targets' = [method |-> "call_tool", servers |-> <<s>>, explicit |-> TRUE]
    /\ queue' = <<s>>
    /\ pc' = "calling"
    /\ UNCHANGED <<process, orphans, sent, status, configs, order, enabled,
                   impl, cur, results, spawnLog, ret, raised, scope, spawned,
                   tasks, stdout, stdio>>

\* (mutant) a fan-out without a `servers` argument targets every configured server
FanBeginAllServers(method, srvs, explicit) ==
    /\ pc = "idle" /\ impl = "client"
    /\ targets' = [method |-> method,
                   servers |-> IF explicit THEN srvs ELSE ServerOrder,
                   explicit |-> explicit]
    /\ queue' = targets'.servers
    /\ results' = <<>>
    /\ pc' = "calling"
    /\ UNCHANGED <<process, orphans, sent, status, configs, order, enabled,
                   impl, cur, spawnLog, ret, raised, scope, spawned,
                   tasks, stdout, stdio>>

\* enumerate_subdomains_passive / _active / _combined: entry; without a
\* `servers` argument the enabled servers are targeted
FanBegin(method, srvs, explicit) ==
    /\ pc = "idle" /\ impl = "client"
    /\ targets' = [method |-> method,
                   servers |-> IF explicit THEN srvs
                               ELSE SeqFilter(ServerOrder, {s \in Servers : enabled[s]}),
                   explicit |-> explicit]
    /\ queue' = targets'.servers
    /\ results' = <<>>
    /\ pc' = "calling"
    /\ UNCHANGED <<process, orphans, sent, status, configs, order, enabled,
                   impl, cur, spawnLog, ret, raised, scope, spawned,
                   tasks, stdout, stdio>>

\* call_tool returns at once: the server is not configured, is disabled or has
\* no process handle
CallToolEarly(s) ==
    IF s \notin Servers THEN ErrorDict("not found")
    ELSE IF ~enabled[s] THEN ErrorDict("disabled")
    ELSE ErrorDict("not running")

\* call_tool writes its request: `server.process and server.process.stdin`
CallToolWrites(s) == s \in Servers /\ enabled[s] /\ process[s] # "none"

\* call_tool(Head(queue)) returned v: a direct call hands v to the caller, a
\* fan-out stores it under the server's name and goes on with the next target
CallFinish(v) ==
    IF targets.method = "call_tool"
    THEN /\ ret' = [op |-> "call_tool", value |-> v]
         /\ pc' = "ct_ret"
         /\ queue' = <<>>
         /\ UNCHANGED results
    ELSE /\ results' = DictSet(results, Head(queue), v)
         /\ queue' = Tail(queue)
         /\ pc' = "calling"
         /\ UNCHANGED ret

\* call_tool returns without writing
CallEarly ==
    /\ pc = "calling" /\ queue # <<>>
    /\ ~CallToolWrites(Head(queue))
    /\ CallFinish(CallToolEarly(Head(queue)))
    /\ UNCHANGED <<process, orphans, sent, status, configs, order, enabled,
                   impl, targets, cur, spawnLog, raised, scope, spawned,
                   tasks, stdout, stdio>>

\* call_tool writes the request and awaits stdout.readline()
CallWrite ==
    /\ pc = "calling" /\ queue # <<>>
    /\ CallToolWrites(Head(queue))
    /\ sent' = [sent EXCEPT ![Head(queue)] = Log(@, ClientRequest)]
    /\ cur' = Head(queue)
    /\ pc' = "call_wait"
    /\ UNCHANGED <<process, orphans, status, configs, order, enabled, impl,
                   targets, queue, results, spawnLog, ret, raised, scope,
                   spawned,
                   tasks, stdout, stdio>>

\* the server writes a response line and call_tool returns json.loads of it
CallResponse(v) ==
    /\ pc = "call_wait"
    /\ process[cur] = "alive"
    /\ CallFinish(v)
    /\ cur' = None
    /\ UNCHANGED <<process, orphans, sent, status, configs, order, enabled,
                   impl, targets, spawnLog, raised, scope, spawned,
                   tasks, stdout, stdio>>

\* the child has exited: drain() raises or readline() returns b"" at end of
\* file, and call_tool returns an error dict
CallEOF ==
    /\ pc = "call_wait"
    /\ process[cur] # "alive"
    /\ CallFinish(ErrorDict("no response"))
    /\ cur' = None
    /\ UNCHANGED <<process, orphans, sent, status, configs, order, enabled,
                   impl, targets, spawnLog, raised, scope, spawned,
                   tasks, stdout, stdio>>

\* the loop is over: _consolidate_results, whose TypeError escapes
FanEnd ==
    /\ pc = "calling" /\ queue = <<>>
    /\ LET agg == ConsolidateResults(results, targets.method) IN
         /\ ret' = [op |-> "enumerate", value |-> agg]
         /\ raised' = (raised \/ agg.raised)
    /\ pc' = "fan_ret"
    /\ UNCHANGED <<process, orphans, sent, status, configs, order, enabled,
                   impl, targets, cur, queue, results, spawnLog, scope,
                   spawned,
                   tasks, stdout, stdio>>

---------------------------------------------------------------------------
(* MCPClient: specifications *)

\* MCPClient after __init__: the configuration is loaded and nothing is started
ClientInit ==
    /\ impl = "client"
    /\ process = [s \in Servers |-> "none"]
    /\ orphans = [s \in Servers |-> 0]
    /\ sent = [s \in Servers |-> <<>>]
    /\ status = [s \in Servers |-> "stopped"]
    /\ configs = [s \in Servers |-> NoCfg]
    /\ order = <<>>
    /\ enabled \in [Servers -> BOOLEAN]
    /\ targets = NoTargets
    /\ pc = "idle"
    /\ cur = None
    /\ queue = <<>>
    /\ results = <<>>
    /\ spawnLog = [s \in Servers |-> "none"]
    /\ ret = NoRet
    /\ raised = FALSE
    /\ scope = None
    /\ spawned = [s \in Servers |-> None]
    /\ tasks = NoTasks /\ stdout = NoStdout /\ stdio = NoStdio

ClientEnv == \E s \in Servers : ProcExit(s) \/ OrphanExit(s)

ClientLifeNext ==
    \/ StartAllBegin \/ StartAllSkip \/ StartSpawnFail \/ StartSpawn
    \/ StartCheck \/ StartAllEnd
    \/ StopAllBegin \/ StopNothing \/ StopTerminate \/ StopWaited
    \/ StopTimeoutKill \/ StopAllEnd

ClientCallNext ==
    \/ CallEarly \/ CallWrite \/ CallEOF
    \/ \E v \in FanResponses : CallResponse(v)

ClientNext ==
    \/ ClientLifeNext
    \/ \E s \in Names : CallToolBegin(s)
    \/ ClientCallNext
    \/ ClientEnv
    \/ Return

\* MCPClient driven by one caller: start, stop and direct tool calls
SpecClient == ClientInit /\ [][ClientNext]_vars

\* MCPClient with its servers already started, stopped or dead: any state of
\* the process handles that start_all_servers / stop_all_servers can leave
FanInit ==
    /\ impl = "client"
    /\ enabled \in [Servers -> BOOLEAN]
    /\ process \in [Servers -> {"none", "alive", "exited"}]
    /\ \A s \in Servers : ~enabled[s] => process[s] = "none"
    /\ orphans = [s \in Servers |-> 0]
    /\ sent = [s \in Servers |-> <<>>]
    /\ status = [s \in Servers |-> "stopped"]
    /\ configs = [s \in Servers |-> NoCfg]
    /\ order = <<>>
    /\ targets = NoTargets
    /\ pc = "idle"
    /\ cur = None
    /\ queue = <<>>
    /\ results = <<>>
    /\ spawnLog = [s \in Servers |-> "none"]
    /\ ret = NoRet
    /\ raised = FALSE
    /\ scope = None
    /\ spawned = [s \in Servers |-> IF process[s] = "none" THEN None ELSE ClientCmd]
    /\ tasks = NoTasks /\ stdout = NoStdout /\ stdio = NoStdio

FanNext ==
    \/ \E m \in Methods : FanBegin(m, <<>>, FALSE)
    \/ \E m \in Methods, l \in TargetLists : FanBegin(m, l, TRUE)
    \/ ClientCallNext
    \/ FanEnd
    \/ \E s \in Servers : ProcExit(s)
    \/ Return

\* the fan-outs of MCPClient, from every state its servers can be in
SpecFan == FanInit /\ [][FanNext]_vars

---------------------------------------------------------------------------
(* _consolidate_results on its own: every dict of per-server results *)

\* the per-server results drawn for the consolidator
ConsValues ==
    UNION {{OkSubs(l), OkComb(l)} : l \in ListsUpTo(MaxList)}
        \cup UNION {{FailSubs(l), OkBoth(l, <<<<98>>>>)} : l \in ListsUpTo(1)}
        \cup {OkBare, NonDict, ErrorDict("no response"), OkNotIterable}

\* the dicts the fan-out loop can have built: distinct keys, any insertion order
ConsDicts ==
    {<<>>}
        \cup {<<<<s, v>>>> : s \in Servers, v \in ConsValues}
        \cup {<<<<s, v>>, <<t, w>>>> :
                 s \in Servers, t \in Servers, v \in ConsValues, w \in ConsValues}

\* a fan-out whose loop has just ended with `results`
ConsInit ==
    /\ impl = "client"
    /\ results \in ConsDicts
    /\ \A i, j \in DOMAIN results : i # j => results[i][1] # results[j][1]
    /\ targets = [method |-> "passive",
                  servers |-> [i \in DOMAIN results |-> results[i][1]],
                  explicit |-> TRUE]
    /\ pc = "calling"
    /\ queue = <<>>
    /\ enabled = [s \in Servers |-> TRUE]
    /\ process = [s \in Servers |-> "alive"]
    /\ orphans = [s \in Servers |-> 0]
    /\ sent = [s \in Servers |-> <<>>]
    /\ status = [s \in Servers |-> "stopped"]
    /\ configs = [s \in Servers |-> NoCfg]
    /\ order = <<>>
    /\ cur = None
    /\ spawnLog = [s \in Servers |-> "none"]
    /\ ret = NoRet
    /\ raised = FALSE
    /\ scope = None
    /\ spawned = [s \in Servers |-> ClientCmd]
    /\ tasks = NoTasks /\ stdout = NoStdout /\ stdio = NoStdio

ConsNext == FanEnd \/ Return

\* the consolidator applied to every bounded dict of results
SpecCons == ConsInit /\ [][ConsNext]_vars

---------------------------------------------------------------------------
(* Properties of the consolidator and of the fan-out *)

\* a fan-out has just returned an aggregate (no exception escaped)
FanReturned == pc = "fan_ret" /\ ~ret.value.raised

\* strictly ascending in str order: sorted and free of duplicates
StrictlyAscending(l) == \A i, j \in DOMAIN l : i < j => StrLess(l[i], l[j])

\* the names listed under the key the consolidator reads, over the results
\* that count as successes
ReportedNames(res) ==
    {x \in Strs : \E i \in DOMAIN res :
        /\ res[i][2].isdict /\ res[i][2].success
        /\ \/ res[i][2].hasSubs /\ \E k \in DOMAIN res[i][2].subs : res[i][2].subs[k] = x
           \/ /\ ~res[i][2].hasSubs /\ res[i][2].hasComb
              /\ \E k \in DOMAIN res[i][2].comb : res[i][2].comb[k] = x}

Reverse(q) == [i \in DOMAIN q |-> q[Len(q) + 1 - i]]

\* C1: every fan-out returns an aggregate whose two lists are disjoint, cover
\* exactly the targeted servers, and whose lengths add up to the length N of
\* the `servers` list, whatever the servers' calls returned.
C1_FanOutPartitionsTargets ==
    pc = "fan_ret" =>
        /\ ~ret.value.raised
        /\ ToSet(ret.value.successful_servers) \cap ToSet(ret.value.failed_servers) = {}
        /\ ToSet(ret.value.successful_servers) \cup ToSet(ret.value.failed_servers)
               = ToSet(targets.servers)
        /\ Len(ret.value.successful_servers) + Len(ret.value.failed_servers)
               = Len(targets.servers)

\* C2: the consolidated subdomains are the exact, case-sensitive union of the
\* lists of the successful results, strictly ascending (sorted, no duplicate),
\* and the same whatever the order of the per-server results.
C2_SortedUnionAnyOrder ==
    FanReturned =>
        /\ StrictlyAscending(ret.value.subdomains)
        /\ ToSet(ret.value.subdomains) = ReportedNames(results)
        /\ ret.value.subdomains
               = ConsolidateResults(Reverse(results), targets.method).subdomains

\* C2 witness: [a, ab] and [ab, b] from two servers gave exactly [a, ab, b]
C2_Witness ==
    /\ FanReturned
    /\ results = <<<<"B", OkSubs(<<<<97, 98>>, <<98>>>>)>>,
                   <<"A", OkSubs(<<<<97>>, <<97, 98>>>>)>>>>
    /\ ret.value.subdomains = <<<<97>>, <<97, 98>>, <<98>>>>

\* the caller's own steps of a fan-out always get to run; no server is ever
\* obliged to answer, and no child process is obliged to exit
FairSpecFan ==
    /\ SpecFan
    /\ WF_vars(CallEarly) /\ WF_vars(CallWrite) /\ WF_vars(CallEOF)
    /\ WF_vars(FanEnd) /\ WF_vars(Return)

\* C5: a fan-out that is waiting for one server's response goes on to return,
\* with a result entry for every targeted server, also when that server never
\* writes a response line.
C5_StalledServerDoesNotBlock ==
    (/\ pc = "call_wait" /\ targets.method \in Methods
     /\ \E i \in DOMAIN queue : queue[i] # cur)
        ~> (pc = "fan_ret" /\ DictKeys(results) = ToSet(targets.servers))

---------------------------------------------------------------------------
(* MCPManager / AmasseMCPClient (src/src/mcp_adapter.py) *)

\* the commands a configuration may carry
Cmds == {"cmd1", "cmd2"}

\* MCPServerConfig.command left empty
EmptyCmd == ""

Registered(s) == s \in Servers /\ configs[s] # NoCfg

\* MCPResponse(success, data, error, server_name)
MCPResponse(ok, data, err, name) ==
    [success |-> ok, data |-> data, error |-> err, server_name |-> name]

\* the request AmasseMCPClient.call_tool writes: always id 1, newline-terminated
ManagerRequest == [method |-> "tools/call", id |-> 1, newline |-> TRUE]

\* (mutant) register_server keeps the config a name was first registered with
RegisterServerKeepsFirst(s, c) ==
    /\ pc = "idle" /\ impl = "manager"
    /\ configs' = IF Registered(s) THEN configs ELSE [configs EXCEPT ![s] = c]
    /\ order' = IF Registered(s) THEN order ELSE Append(order, s)
    /\ status' = [status EXCEPT ![s] = "stopped"]
    /\ process' = [process EXCEPT ![s] = "none"]
    /\ orphans' = Orphaned(s)
    /\ sent' = [sent EXCEPT ![s] = <<>>]
    /\ spawned' = [spawned EXCEPT ![s] = None]
    /\ ret' = [op |-> "register_server", name |-> s, warned |-> Registered(s)]
    /\ pc' = "rs_ret"
    /\ UNCHANGED <<enabled, impl, targets, cur, queue, results, spawnLog,
                   raised, scope,
                   tasks, stdout, stdio>>

\* register_server: the config is stored and a NEW client object replaces any
\* old one; the old object's child process, if running, is not stopped; a
\* warning is logged when the name was registered before
RegisterServer(s, c) ==
    /\ pc = "idle" /\ impl = "manager"
    /\ configs' = [configs EXCEPT ![s] = c]
    /\ order' = IF Registered(s) THEN order ELSE Append(order, s)
    /\ status' = [status EXCEPT ![s] = "stopped"]
    /\ process' = [process EXCEPT ![s] = "none"]
    /\ orphans' = Orphaned(s)
    /\ sent' = [sent EXCEPT ![s] = <<>>]
    /\ spawned' = [spawned EXCEPT ![s] = None]
    /\ ret' = [op |-> "register_server", name |-> s, warned |-> Registered(s)]
    /\ pc' = "rs_ret"
    /\ UNCHANGED <<enabled, impl, targets, cur, queue, results, spawnLog,
                   raised, scope,
                   tasks, stdout, stdio>>

\* connect_all: entry
ConnectAllEntry ==
    /\ pc = "idle" /\ impl = "manager"
    /\ pc' = "ca_loop"
    /\ queue' = order
    /\ results' = <<>>
    /\ spawnLog' = [s \in Servers |-> "none"]
    /\ UNCHANGED <<process, orphans, sent, status, configs, order, enabled,
                   impl, targets, cur, ret, raised, spawned,
                   tasks, stdout, stdio>>

\* a caller invokes connect_all
ConnectAllBegin == ConnectAllEntry /\ UNCHANGED scope

\* (mutant) a failed spawn ends the loop of connect_all
ConnectSpawnFailAborts ==
    /\ pc = "ca_loop" /\ queue # <<>>
    /\ status' = [status EXCEPT ![Head(queue)] = "error"]
    /\ results' = DictSet(results, Head(queue), FALSE)
    /\ spawnLog' = [spawnLog EXCEPT ![Head(queue)] = "spawn_failed"]
    /\ queue' = <<>>
    /\ UNCHANGED <<process, orphans, sent, configs, order, enabled, impl,
                   targets, pc, cur, ret, raised, scope, spawned,
                   tasks, stdout, stdio>>

\* connect: subprocess.Popen raises; status ERROR, False
ConnectSpawnFail ==
    /\ pc = "ca_loop" /\ queue # <<>>
    /\ status' = [status EXCEPT ![Head(queue)] = "error"]
    /\ results' = DictSet(results, Head(queue), FALSE)
    /\ spawnLog' = [spawnLog EXCEPT ![Head(queue)] = "spawn_failed"]
    /\ queue' = Tail(queue)
    /\ UNCHANGED <<process, orphans, sent, configs, order, enabled, impl,
                   targets, pc, cur, ret, raised, scope, spawned,
                   tasks, stdout, stdio>>

\* connect: subprocess.Popen succeeds (it raises for an empty command) and
\* self.process is overwritten; the status is not touched before the grace
\* period is over
ConnectSpawn ==
    /\ pc = "ca_loop" /\ queue # <<>>
    /\ configs[Head(queue)] # EmptyCmd
    /\ LET s == Head(queue) IN
         /\ process' = [process EXCEPT ![s] = "alive"]
         /\ orphans' = Orphaned(s)
         /\ sent' = [sent EXCEPT ![s] = <<>>]
         /\ spawnLog' = [spawnLog EXCEPT ![s] = "up"]
         /\ spawned' = [spawned EXCEPT ![s] = configs[s]]
         /\ cur' = s
    /\ pc' = "ca_grace"
    /\ UNCHANGED <<status, configs, order, enabled, impl, targets, queue,
                   results, ret, raised, scope,
                   tasks, stdout, stdio>>

\* connect after sleep(2): poll() is None gives RUNNING and True, otherwise
\* ERROR and False
ConnectCheck ==
    /\ pc = "ca_grace"
    /\ status' = [status EXCEPT ![cur] =
                     IF process[cur] = "alive" THEN "running" ELSE "error"]
    /\ results' = DictSet(results, cur, process[cur] = "alive")
    /\ queue' = Tail(queue)
    /\ pc' = "ca_loop"
    /\ cur' = None
    /\ UNCHANGED <<process, orphans, sent, configs, order, enabled, impl,
                   targets, spawnLog, ret, raised, scope, spawned,
                   tasks, stdout, stdio>>

\* connect_all: return results
ConnectAllEnd ==
    /\ pc = "ca_loop" /\ queue = <<>>
    /\ ret' = [op |-> "connect_all", value |-> results]
    /\ pc' = "ca_ret"
    /\ UNCHANGED <<process, orphans, sent, status, configs, order, enabled,
                   impl, targets, cur, queue, results, spawnLog, raised,
                   scope, spawned,
                   tasks, stdout, stdio>>

\* disconnect_all: entry
DisconnectAllEntry ==
    /\ pc = "idle" /\ impl = "manager"
    /\ pc' = "da_loop"
    /\ queue' = order
    /\ results' = <<>>
    /\ UNCHANGED <<process, orphans, sent, status, configs, order, enabled,
                   impl, targets, cur, spawnLog, ret, raised, spawned,
                   tasks, stdout, stdio>>

\* a caller invokes disconnect_all
DisconnectAllBegin == DisconnectAllEntry /\ UNCHANGED scope

\* (mutant) disconnect leaves the status of a session without a live process
DisconnectNothingKeepsStatus ==
    /\ pc = "da_loop" /\ queue # <<>>
    /\ process[Head(queue)] # "alive"
    /\ results' = DictSet(results, Head(queue), TRUE)
    /\ queue' = Tail(queue)
    /\ UNCHANGED <<process, orphans, sent, status, configs, order, enabled,
                   impl, targets, pc, cur, spawnLog, ret, raised, scope,
                   spawned,
                   tasks, stdout, stdio>>

\* disconnect: no process, or poll() is not None: status STOPPED, True
DisconnectNothing ==
    /\ pc = "da_loop" /\ queue # <<>>
    /\ process[Head(queue)] # "alive"
    /\ status' = [status EXCEPT ![Head(queue)] = "stopped"]
    /\ results' = DictSet(results, Head(queue), TRUE)
    /\ queue' = Tail(queue)
    /\ UNCHANGED <<process, orphans, sent, configs, order, enabled, impl,
                   targets, pc, cur, spawnLog, ret, raised, scope, spawned,
                   tasks, stdout, stdio>>

\* disconnect: terminate() a running child and poll it for up to 5 seconds
DisconnectTerminate ==
    /\ pc = "da_loop" /\ queue # <<>>
    /\ process[Head(queue)] = "alive"
    /\ cur' = Head(queue)
    /\ pc' = "da_wait"
    /\ UNCHANGED <<process, orphans, sent, status, configs, order, enabled,
                   impl, targets, queue, results, spawnLog, ret, raised,
                   scope, spawned,
                   tasks, stdout, stdio>>

\* disconnect: the child exited inside the 5 seconds: status STOPPED, True
DisconnectWaited ==
    /\ pc = "da_wait"
    /\ process[cur] # "alive"
    /\ status' = [status EXCEPT ![cur] = "stopped"]
    /\ results' = DictSet(results, cur, TRUE)
    /\ queue' = Tail(queue)
    /\ pc' = "da_loop"
    /\ cur' = None
    /\ UNCHANGED <<process, orphans, sent, configs, order, enabled, impl,
                   targets, spawnLog, ret, raised, scope, spawned,
                   tasks, stdout, stdio>>

\* disconnect: asyncio.TimeoutError: kill() without a wait; status STOPPED, True
DisconnectTimeoutKill ==
    /\ pc = "da_wait"
    /\ process[cur] = "alive"
    /\ process' = [process EXCEPT ![cur] = "killed"]
    /\ status' = [status EXCEPT ![cur] = "stopped"]
    /\ results' = DictSet(results, cur, TRUE)
    /\ queue' = Tail(queue)
    /\ pc' = "da_loop"
    /\ cur' = None
    /\ UNCHANGED <<orphans, sent, configs, order, enabled, impl, targets,
                   spawnLog, ret, raised, scope, spawned,
                   tasks, stdout, stdio>>

\* disconnect_all: return results
DisconnectAllEnd ==
    /\ pc = "da_loop" /\ queue = <<>>
    /\ ret' = [op |-> "disconnect_all", value |-> results]
    /\ pc' = "da_ret"
    /\ UNCHANGED <<process, orphans, sent, status, configs, order, enabled,
                   impl, targets, cur, queue, results, spawnLog, raised,
                   scope, spawned,
                   tasks, stdout, stdio>>

\* a line read from a server's stdout: `json` is FALSE when json.loads raises;
\* otherwise the object's id and its "result" and "error" members
Line(json, id, hasResult, result, hasError, hasMessage, message) ==
    [json |-> json, id |-> id, hasResult |-> hasResult, result |-> result,
     hasError |-> hasError, hasMessage |-> hasMessage, message |-> message]

\* the lines a server may write in answer to a request
ResponseLines ==
    {Line(TRUE, 1, TRUE, "r1", FALSE, FALSE, None),
     Line(TRUE, 1, TRUE, "r2", FALSE, FALSE, None),
     Line(TRUE, 2, TRUE, "r1", FALSE, FALSE, None),
     Line(TRUE, 1, FALSE, None, TRUE, TRUE, "m1"),
     Line(TRUE, 1, FALSE, None, TRUE, FALSE, None),
     Line(FALSE, 0, FALSE, None, FALSE, FALSE, None)}

\* (mutant) the parsed response loses the "result" member
ParseResponseDropsData(line, name) ==
    IF ~line.json THEN MCPResponse(FALSE, None, "json error", name)
    ELSE IF line.hasError
    THEN MCPResponse(FALSE, None,
                     IF line.hasMessage THEN line.message ELSE "Unknown error",
                     name)
    ELSE MCPResponse(TRUE, None, None, name)

\* what AmasseMCPClient.call_tool makes of a response line: the id is not read
ParseResponse(line, name) ==
    IF ~line.json THEN MCPResponse(FALSE, None, "json error", name)
    ELSE IF line.hasError
    THEN MCPResponse(FALSE, None,
                     IF line.hasMessage THEN line.message ELSE "Unknown error",
                     name)
    ELSE MCPResponse(TRUE, IF line.hasResult THEN line.result ELSE None,
                     None, name)

\* MCPManager.call_tool on a name without a client, or AmasseMCPClient.call_tool
\* on a client whose status is not RUNNING: a failure response, nothing written
ManagerCallRefused(s) ==
    /\ pc = "idle" /\ impl = "manager"
    /\ ~(Registered(s) /\ status[s] = "running")
    /\ ret' = [op |-> "call_tool",
               value |-> IF Registered(s)
                         THEN MCPResponse(FALSE, None, "not running", s)
                         ELSE MCPResponse(FALSE, None, "not registered", None)]
    /\ targets' = [method |-> "call_tool", servers |-> <<s>>, explicit |-> TRUE]
    /\ pc' = "ct_ret"
    /\ UNCHANGED <<process, orphans, sent, status, configs, order, enabled,
                   impl, cur, queue, results, spawnLog, raised, scope,
                   spawned,
                   tasks, stdout, stdio>>

\* AmasseMCPClient.call_tool on a RUNNING client: the request is written and
\* stdout.readline() blocks
ManagerCallWrite(s) ==
    /\ pc = "idle" /\ impl = "manager"
    /\ Registered(s) /\ status[s] = "running"
    /\ sent' = [sent EXCEPT ![s] = Log(@, ManagerRequest)]
    /\ targets' = [method |-> "call_tool", servers |-> <<s>>, explicit |-> TRUE]
    /\ cur' = s
    /\ pc' = "mc_wait"
    /\ UNCHANGED <<process, orphans, status, configs, order, enabled, impl,
                   queue, results, spawnLog, ret, raised, scope, spawned,
                   tasks, stdout, stdio>>

\* the server writes a line: call_tool returns what it parses
ManagerCallResponse(line) ==
    /\ pc = "mc_wait"
    /\ process[cur] = "alive"
    /\ ret' = [op |-> "call_tool", value |-> ParseResponse(line, cur)]
    /\ pc' = "ct_ret"
    /\ UNCHANGED <<process, orphans, sent, status, configs, order, enabled,
                   impl, targets, cur, queue, results, spawnLog, raised,
                   scope, spawned,
                   tasks, stdout, stdio>>

\* the child has exited: the write raises BrokenPipeError or readline()
\* returns "": call_tool returns a failure and leaves the status alone
ManagerCallEOF ==
    /\ pc = "mc_wait"
    /\ process[cur] # "alive"
    /\ ret' = [op |-> "call_tool",
               value |-> MCPResponse(FALSE, None, "no response", cur)]
    /\ pc' = "ct_ret"
    /\ UNCHANGED <<process, orphans, sent, status, configs, order, enabled,
                   impl, targets, cur, queue, results, spawnLog, raised,
                   scope, spawned,
                   tasks, stdout, stdio>>

\* MCPManager.get_server_status
GetServerStatus(s) == IF Registered(s) THEN status[s] ELSE "unknown"

\* MCPManager after __init__: nothing registered
ManagerInit ==
    /\ impl = "manager"
    /\ configs = [s \in Servers |-> NoCfg]
    /\ order = <<>>
    /\ status = [s \in Servers |-> "stopped"]
    /\ process = [s \in Servers |-> "none"]
    /\ orphans = [s \in Servers |-> 0]
    /\ sent = [s \in Servers |-> <<>>]
    /\ enabled = [s \in Servers |-> TRUE]
    /\ targets = NoTargets
    /\ pc = "idle"
    /\ cur = None
    /\ queue = <<>>
    /\ results = <<>>
    /\ spawnLog = [s \in Servers |-> "none"]
    /\ ret = NoRet
    /\ raised = FALSE
    /\ scope = None
    /\ spawned = [s \in Servers |-> None]
    /\ tasks = NoTasks /\ stdout = NoStdout /\ stdio = NoStdio

ManagerLifeNext ==
    \/ \E s \in Servers, c \in Cmds : RegisterServer(s, c)
    \/ ConnectAllBegin \/ ConnectSpawnFail \/ ConnectSpawn \/ ConnectCheck
    \/ ConnectAllEnd
    \/ DisconnectAllBegin \/ DisconnectNothing \/ DisconnectTerminate
    \/ DisconnectWaited \/ DisconnectTimeoutKill \/ DisconnectAllEnd

ManagerCallNext ==
    \/ \E s \in Names : ManagerCallRefused(s) \/ ManagerCallWrite(s)
    \/ \E line \in ResponseLines : ManagerCallResponse(line)
    \/ ManagerCallEOF

ManagerNext ==
    \/ ManagerLifeNext
    \/ ManagerCallNext
    \/ ClientEnv
    \/ Return

\* MCPManager driven by one caller, with its child processes
SpecManager == ManagerInit /\ [][ManagerNext]_vars

---------------------------------------------------------------------------
(* Properties of call_tool and of the process handles *)

\* the session of s is not running: s is unknown or disabled, or s has no
\* child process that is alive
NotRunning(s) == s \notin Servers \/ ~enabled[s] \/ process[s] # "alive"

\* C3: a direct call_tool on a server that is unknown, disabled or not running
\* returns a failure and writes no request to any server.
C3_NotRunningCallWritesNothing ==
    [][(/\ pc = "calling" /\ targets.method = "call_tool"
        /\ pc' # "calling"
        /\ NotRunning(Head(queue)))
           => (/\ sent' = sent
               /\ pc' = "ct_ret"
               /\ ~ret'.value.success)]_vars

\* C4: each server name has at most one live child process spawned for it (the
\* first half of the claim; "exactly one while Running" is the second half).
C4_AtMostOneLiveProcess == \A s \in Servers : LiveCount(s) <= 1

\* the manager's own steps always get to run; no server is ever obliged to
\* answer, and no child process is obliged to exit
FairSpecManager ==
    /\ SpecManager
    /\ WF_vars(ManagerCallEOF) /\ WF_vars(Return)
    /\ WF_vars(ConnectCheck) /\ WF_vars(ConnectAllEnd)
    /\ WF_vars(DisconnectNothing) /\ WF_vars(DisconnectWaited)
    /\ WF_vars(DisconnectTimeoutKill) /\ WF_vars(DisconnectAllEnd)

\* C6: a tool call that is waiting for its response returns to the caller, also
\* when the live server never writes a line (the per-call timeout).
C6_StalledCallTimesOut == (pc = "mc_wait") ~> (pc = "ct_ret")

\* C7: when the server process exits while a tool call is waiting for it, the
\* call returns a failure and the session's status is Failed from then on.
C7_ProcessDeathMarksFailed ==
    (/\ impl = "manager" /\ pc = "ct_ret"
     /\ ret.value.error = "no response"
     /\ spawnLog[ret.value.server_name] = "exited_in_call")
        => (/\ ~ret.value.success
            /\ GetServerStatus(ret.value.server_name) = "error")

---------------------------------------------------------------------------
(* Properties of the lifecycle: connect_all / start_all_servers and
   disconnect_all / stop_all_servers *)

\* either implementation, driven by one caller
SpecLife == (ClientInit \/ ManagerInit) /\ [][ClientNext \/ ManagerNext]_vars

\* MCPClient.get_server_status, for one server
ClientStatus(s) ==
    IF ~enabled[s] THEN "disabled"
    ELSE IF process[s] = "none" THEN "stopped"
    ELSE IF process[s] = "alive" THEN "running"
    ELSE "failed"

\* the steps disconnect_all / stop_all_servers takes on its own
DisconnectStep ==
    \/ DisconnectNothing \/ DisconnectTerminate \/ DisconnectWaited
    \/ DisconnectTimeoutKill \/ DisconnectAllEnd

StopStep ==
    \/ StopNothing \/ StopTerminate \/ StopWaited \/ StopTimeoutKill
    \/ StopAllEnd

\* C8: disconnect_all / stop_all_servers never raises and never blocks (at
\* every point inside it a step of its own is possible, whatever the child
\* processes do), also when repeated, with nothing connected or with dead
\* processes; when it has returned no session is Running.
C8_DisconnectAllSafe ==
    /\ pc \in {"da_loop", "da_wait"} => ~raised /\ ENABLED DisconnectStep
    /\ pc \in {"st_loop", "st_wait"} => ~raised /\ ENABLED StopStep
    /\ pc = "da_ret" =>
           /\ ~raised
           /\ DictKeys(ret.value) = ToSet(order)
           /\ \A s \in ToSet(order) :
                  GetServerStatus(s) # "running" /\ process[s] # "alive"
    /\ pc = "st_ret" =>
           /\ ~raised
           /\ \A s \in Servers : ClientStatus(s) # "running"

\* C8 witness: disconnect_all returned over A, whose process had died under a
\* tool call, and B, which was registered and never connected
C8_Witness ==
    /\ pc = "da_ret"
    /\ order = <<"A", "B">>
    /\ spawnLog["A"] = "exited_in_call"
    /\ process["B"] = "none"
    /\ DictKeys(ret.value) = {"A", "B"}

\* C10: connect_all / start_all_servers returns exactly one boolean per
\* server; every registered (enabled) server was attempted, and its boolean is
\* True exactly when its own spawn succeeded and its own process outlived the
\* grace period, whatever happened to the other servers.
C10_ConnectAllIndependent ==
    /\ pc = "ca_ret" =>
           /\ Len(ret.value) = Len(order)
           /\ DictKeys(ret.value) = ToSet(order)
           /\ \A s \in ToSet(order) :
                  /\ spawnLog[s] # "none"
                  /\ DictGet(ret.value, s) = (spawnLog[s] = "up")
    /\ pc = "sa_ret" =>
           /\ Len(ret.value) = Cardinality(Servers)
           /\ DictKeys(ret.value) = Servers
           /\ \A s \in Servers :
                  IF enabled[s]
                  THEN /\ spawnLog[s] # "none"
                       /\ DictGet(ret.value, s) = (spawnLog[s] = "up")
                  ELSE DictGet(ret.value, s) = FALSE

\* C10 witness: connect_all returned False for A, whose spawn failed, and True
\* for B, which was connected after it
C10_Witness ==
    /\ pc = "ca_ret"
    /\ order = <<"A", "B">>
    /\ spawnLog["A"] = "spawn_failed"
    /\ ret.value = <<<<"A", FALSE>>, <<"B", TRUE>>>>

---------------------------------------------------------------------------
(* main() (src/main.py) and run_reconnaissance()
   (src/src/reconnaissance_agent.py): start, work, and stop in a finally *)

\* the ways the caller's own logic between start-up and the finally can end
WorkOutcomes == {"return", "exception", "interrupt"}

\* the function has been entered and its agent constructed: nothing started yet
MainInit ==
    /\ \/ /\ impl = "client"
          /\ configs = [s \in Servers |-> NoCfg]
          /\ order = <<>>
          /\ enabled \in [Servers -> BOOLEAN]
          /\ scope \in {[fn |-> "main", auto |-> TRUE, at |-> "try",
                         started |-> FALSE, stopped |-> FALSE, exit |-> None]}
       \/ /\ impl = "manager"
          /\ configs = [s \in Servers |-> IF s = "A" THEN "cmd1" ELSE NoCfg]
          /\ order = <<"A">>
          /\ enabled = [s \in Servers |-> TRUE]
          /\ scope \in {[fn |-> "run_reconnaissance", auto |-> a, at |-> "try",
                         started |-> FALSE, stopped |-> FALSE, exit |-> None] :
                            a \in BOOLEAN}
    /\ process = [s \in Servers |-> "none"]
    /\ orphans = [s \in Servers |-> 0]
    /\ sent = [s \in Servers |-> <<>>]
    /\ status = [s \in Servers |-> "stopped"]
    /\ targets = NoTargets
    /\ pc = "idle"
    /\ cur = None
    /\ queue = <<>>
    /\ results = <<>>
    /\ spawnLog = [s \in Servers |-> "none"]
    /\ ret = NoRet
    /\ raised = FALSE
    /\ spawned = [s \in Servers |-> None]
    /\ tasks = NoTasks /\ stdout = NoStdout /\ stdio = NoStdio

\* main: app.setup() calls start_all_servers
MainSetup ==
    /\ scope.at = "try" /\ scope.fn = "main"
    /\ StartAllEntry
    /\ scope' = [scope EXCEPT !.at = "setup", !.started = TRUE]

\* run_reconnaissance: start_mcp_servers() calls connect_all, or is skipped
\* without auto_manage_servers
ReconStart ==
    /\ scope.at = "try" /\ scope.fn = "run_reconnaissance"
    /\ IF scope.auto
       THEN /\ ConnectAllEntry
            /\ scope' = [scope EXCEPT !.at = "setup", !.started = TRUE]
       ELSE /\ scope' = [scope EXCEPT !.at = "work"]
            /\ UNCHANGED <<process, orphans, sent, status, configs, order,
                           enabled, impl, targets, pc, cur, queue, results,
                           spawnLog, ret, raised, spawned,
                           tasks, stdout, stdio>>

\* start-up returned: main goes on only when some server is running (else
\* `return 1`), run_reconnaissance goes on whatever the results
SetupDone ==
    /\ scope.at = "setup" /\ pc \in {"sa_ret", "ca_ret"}
    /\ ReturnEffect
    /\ scope' = IF scope.fn = "main" /\ ~\E i \in DOMAIN ret.value : ret.value[i][2]
                THEN [scope EXCEPT !.at = "finally", !.exit = "setup_failed"]
                ELSE [scope EXCEPT !.at = "work"]

\* KeyboardInterrupt / cancellation at an await inside start-up: the loop is
\* abandoned where it is and control passes to the finally
SetupInterrupted ==
    /\ scope.at = "setup" /\ pc \in {"sa_loop", "sa_grace", "ca_loop", "ca_grace"}
    /\ pc' = "idle"
    /\ queue' = <<>>
    /\ results' = <<>>
    /\ cur' = None
    /\ scope' = [scope EXCEPT !.at = "finally", !.exit = "interrupt"]
    /\ UNCHANGED <<process, orphans, sent, status, configs, order, enabled,
                   impl, targets, spawnLog, ret, raised, spawned,
                   tasks, stdout, stdio>>

\* (mutant) the stop is reached on the normal path only
MainWorkNoFinally(o) ==
    /\ scope.at = "work" /\ pc = "idle"
    /\ scope' = [scope EXCEPT !.at = IF o = "return" THEN "finally" ELSE "done",
                              !.exit = o]
    /\ UNCHANGED <<process, orphans, sent, status, configs, order, enabled,
                   impl, targets, pc, cur, queue, results, spawnLog, ret,
                   raised, spawned,
                   tasks, stdout, stdio>>

\* the caller's own logic ends: a return (also `--status`), an exception or an
\* interrupt; each of them passes through the finally
MainWork(o) ==
    /\ scope.at = "work" /\ pc = "idle"
    /\ scope' = [scope EXCEPT !.at = "finally", !.exit = o]
    /\ UNCHANGED <<process, orphans, sent, status, configs, order, enabled,
                   impl, targets, pc, cur, queue, results, spawnLog, ret,
                   raised, spawned,
                   tasks, stdout, stdio>>

\* finally: app.cleanup() calls stop_all_servers; stop_mcp_servers() calls
\* disconnect_all, or is skipped without auto_manage_servers
MainFinally ==
    /\ scope.at = "finally"
    /\ IF scope.fn = "main"
       THEN /\ StopAllEntry
            /\ scope' = [scope EXCEPT !.at = "cleanup", !.stopped = TRUE]
       ELSE IF scope.auto
       THEN /\ DisconnectAllEntry
            /\ scope' = [scope EXCEPT !.at = "cleanup", !.stopped = TRUE]
       ELSE /\ scope' = [scope EXCEPT !.at = "done"]
            /\ UNCHANGED <<process, orphans, sent, status, configs, order,
                           enabled, impl, targets, pc, cur, queue, results,
                           spawnLog, ret, raised, spawned,
                           tasks, stdout, stdio>>

\* the stop returned and the function ends
MainExit ==
    /\ scope.at = "cleanup" /\ pc \in {"st_ret", "da_ret"}
    /\ ReturnEffect
    /\ scope' = [scope EXCEPT !.at = "done"]

MainNext ==
    \/ MainSetup \/ ReconStart \/ SetupDone \/ SetupInterrupted
    \/ \E o \in WorkOutcomes : MainWork(o)
    \/ MainFinally \/ MainExit
    \/ StartAllSkip \/ StartSpawnFail \/ StartSpawn \/ StartCheck \/ StartAllEnd
    \/ StopNothing \/ StopTerminate \/ StopWaited \/ StopTimeoutKill \/ StopAllEnd
    \/ ConnectSpawnFail \/ ConnectSpawn \/ ConnectCheck \/ ConnectAllEnd
    \/ DisconnectNothing \/ DisconnectTerminate \/ DisconnectWaited
    \/ DisconnectTimeoutKill \/ DisconnectAllEnd
    \/ \E s \in Servers : ProcExit(s)

\* one run of main() or of run_reconnaissance()
SpecMain == MainInit /\ [][MainNext]_vars

\* C9: when main() / run_reconnaissance() has ended after attempting server
\* start-up, the stop-all / disconnect-all was invoked on the way out, on
\* every exit path, and no child process it spawned is left running.
C9_StopOnEveryExitPath ==
    (scope.at = "done" /\ scope.started) =>
        /\ scope.stopped
        /\ \A s \in Servers : LiveCount(s) = 0

\* C9 witness: the function ended on an exception of the caller's own logic
\* after a server had been started successfully, and that server is stopped
C9_Witness ==
    /\ scope.at = "done" /\ scope.started
    /\ scope.exit = "exception"
    /\ \E s \in Servers : spawnLog[s] = "up" /\ process[s] \in {"exited", "killed"}

---------------------------------------------------------------------------
(* Properties of the aggregate and of the responses (second part) *)

\* every per-server result of the fan-out fails the consolidator's success test
AllFailed(res) == \A i \in DOMAIN res : ~(res[i][2].isdict /\ res[i][2].success)

\* C11: a returned aggregate has success true exactly when successful_servers
\* is not empty; when every targeted server failed, or none was targeted, the
\* fan-out does not raise and returns success false with no successful server.
C11_SuccessIffSomeServerSucceeded ==
    pc = "fan_ret" =>
        /\ ~ret.value.raised =>
               (ret.value.success <=> ret.value.successful_servers # <<>>)
        /\ AllFailed(results) =>
               /\ ~ret.value.raised
               /\ ~ret.value.success
               /\ ret.value.successful_servers = <<>>

\* C11 witness: a fan-out over A and B, both failing, returned success false
C11_Witness ==
    /\ pc = "fan_ret"
    /\ ToSet(targets.servers) = {"A", "B"}
    /\ AllFailed(results)
    /\ ~ret.value.raised /\ ~ret.value.success
    /\ ret.value.failed_servers = <<"A", "B">>

\* C11, second case: nothing was targeted and an empty aggregate came back
C11_EmptyFanOutReturns ==
    /\ pc = "fan_ret"
    /\ targets.servers = <<>>
    /\ ~ret.value.raised /\ ~ret.value.success

\* C12: in a returned aggregate, a server that answered with a success line
\* {"id": n, "result": {"subdomains": l}} is in successful_servers with l in
\* the consolidated subdomains, and a server without a process (its spawn
\* failed) is in failed_servers.
C12_RpcSuccessIsCounted ==
    (pc = "fan_ret" /\ ~ret.value.raised) =>
        \A i \in DOMAIN results :
            /\ results[i][2].tag = "rpc" =>
                   /\ results[i][1] \in ToSet(ret.value.successful_servers)
                   /\ ToSet(results[i][2].nested) \subseteq ToSet(ret.value.subdomains)
            /\ results[i][2].tag = "not running" =>
                   results[i][1] \in ToSet(ret.value.failed_servers)

\* C13: when a Running session's call reads a response line, the call
\* returns success with the line's "result" as data if the line has no
\* "error" member, and failure with the error's message if it has one; the
\* response names the server either way.
C13_ResponseMapsResultAndError ==
    [][\A line \in ResponseLines :
          (ManagerCallResponse(line) /\ line.json) =>
              /\ ret'.value.server_name = cur
              /\ ~line.hasError =>
                     /\ ret'.value.success
                     /\ line.hasResult => ret'.value.data = line.result
              /\ (line.hasError /\ line.hasMessage) =>
                     /\ ~ret'.value.success
                     /\ ret'.value.error = line.message]_vars

\* C13 witness: a call to the running server A returned success with data r2
C13_Witness ==
    /\ pc = "ct_ret" /\ impl = "manager"
    /\ status["A"] = "running"
    /\ ret.value = MCPResponse(TRUE, "r2", None, "A")

\* C13, second case: a call to A returned the failure carried by an error line
C13_ErrorLineReturned ==
    /\ pc = "ct_ret" /\ impl = "manager"
    /\ ret.value = MCPResponse(FALSE, None, "m1", "A")

---------------------------------------------------------------------------
(* Properties of the registry *)

\* MCPManager.clients holds one entry per registered name
OneEntryPerName ==
    /\ ToSet(order) = {s \in Servers : Registered(s)}
    /\ \A i, j \in DOMAIN order : i # j => order[i] # order[j]

C14_SecondCommandSpawned ==
    /\ pc = "ca_ret"
    /\ configs["A"] = "cmd2" /\ spawned["A"] = "cmd2"
    /\ process["A"] = "alive" /\ orphans["A"] = 1

---------------------------------------------------------------------------
(* Properties of the session status *)

\* the status changes the lifecycle Stopped -> Starting -> Running -> Stopping
\* -> Stopped (Failed from Starting or Running) lets a caller observe, the
\* statuses Starting and Stopping being passed through inside one operation
LifecycleSteps ==
    {<<"stopped", "running">>, <<"stopped", "error">>,
     <<"running", "stopped">>, <<"running", "error">>}

\* C15: on a session (the client object of one registration) every change of
\* status is a step of the lifecycle, and a session that is Failed (ERROR)
\* stays Failed whatever is called on it.
C15_LifecycleFailedTerminal ==
    [][\A s \in Servers :
          (Registered(s) /\ pc' # "rs_ret" /\ status'[s] # status[s]) =>
              /\ status[s] # "error"
              /\ <<status[s], status'[s]>> \in LifecycleSteps]_vars

\* C16: when the child process of a Running session has exited on its own, the
\* session's status becomes Failed (ERROR) with no call made on the session.
C16_DeadProcessBecomesFailed ==
    \A s \in Servers :
        (Registered(s) /\ status[s] = "running" /\ process[s] = "exited")
            ~> (GetServerStatus(s) # "running")

---------------------------------------------------------------------------
(* Properties of the requests written to a session *)

\* C17: on one session (one child process's stdin) every request carries an
\* id strictly greater than the id of every request written before it.
C17_RequestIdsIncrease ==
    \A s \in Servers :
        \A i, j \in DOMAIN sent[s] : i < j => sent[s][i].id < sent[s][j].id

\* C18: on every session the first request written is an initialize request,
\* so that no tools/list or tools/call request precedes it.
C18_InitializeFirst ==
    \A s \in Servers : sent[s] # <<>> => sent[s][1].method = "initialize"

---------------------------------------------------------------------------
(* The registry with configurations that lack a command *)

RegistryNext ==
    \/ \E s \in Servers, c \in Cmds \cup {EmptyCmd} : RegisterServer(s, c)
    \/ ConnectAllBegin \/ ConnectSpawnFail \/ ConnectSpawn \/ ConnectCheck
    \/ ConnectAllEnd
    \/ DisconnectAllBegin \/ DisconnectNothing \/ DisconnectTerminate
    \/ DisconnectWaited \/ DisconnectTimeoutKill \/ DisconnectAllEnd
    \/ ClientEnv
    \/ Return

\* MCPManager with any configuration registered, connected and disconnected
SpecRegistry == ManagerInit /\ [][RegistryNext]_vars

\* C19: a config whose command is empty is rejected by register_server, so
\* that no connect is ever attempted with such a config.
C19_EmptyCommandNeverConnected ==
    \A s \in Servers :
        (Registered(s) /\ configs[s] = EmptyCmd) => spawnLog[s] = "none"

---------------------------------------------------------------------------
(* Correlation of a response line with the request of the call *)

\* C20: a call returns only a response line whose id equals the id of its
\* own request; a line with another id is never returned as the call's result.
C20_ResponseIdMatchesRequest ==
    [][\A line \in ResponseLines :
          (ManagerCallResponse(line) /\ line.json /\ ret'.value.success)
              => line.id = sent[cur][Len(sent[cur])].id]_vars

---------------------------------------------------------------------------
(* Properties of a finished disconnect / stop *)

\* C23: when disconnect_all / stop_all_servers has returned, the child process
\* of every server it visited has terminated and has been waited for, on the
\* graceful path and on the path of the kill after the 5 seconds.
C23_StoppedProcessIsReaped ==
    /\ pc = "da_ret" =>
           \A s \in ToSet(order) : process[s] \in {"none", "exited"}
    /\ pc = "st_ret" =>
           \A s \in Servers : process[s] \in {"none", "exited"}


---------------------------------------------------------------------------
(* Framing of the requests on the wire *)

\* C24: every request written to a server's stdin is one JSON document
\* followed by a newline character, so that it is one complete line.
C24_RequestsNewlineTerminated ==
    \A s \in Servers : \A i \in DOMAIN sent[s] : sent[s][i].newline


\* C25: when the disconnect / stop of a server whose process was running has
\* completed, the status reported for that server is Stopped.
C25_StoppedAfterDisconnect ==
    [][\A s \in Servers :
          /\ (cur = s /\ (DisconnectWaited \/ DisconnectTimeoutKill))
                 => GetServerStatus(s)' = "stopped"
          /\ (cur = s /\ (StopWaited \/ StopTimeoutKill))
                 => ClientStatus(s)' = "stopped"]_vars


---------------------------------------------------------------------------
(* The outcome of one connect / start_server *)

\* C26: connect / start_server returns True and leaves the session Running
\* exactly when the process was spawned and is alive after the grace period;
\* when the spawn raises or the process exited in the grace period it returns
\* False and the session is Failed, never Running.
C26_ConnectOutcome ==
    [][\A s \in Servers :
          /\ (cur = s /\ ConnectCheck) =>
                 /\ DictGet(results', s) = (process[s] = "alive")
                 /\ GetServerStatus(s)' =
                        (IF process[s] = "alive" THEN "running" ELSE "error")
          /\ (queue # <<>> /\ Head(queue) = s /\ ConnectSpawnFail) =>
                 /\ DictGet(results', s) = FALSE
                 /\ GetServerStatus(s)' = "error"
          /\ (cur = s /\ StartCheck) =>
                 /\ DictGet(results', s) = (process[s] = "alive")
                 /\ ClientStatus(s)' =
                        (IF process[s] = "alive" THEN "running" ELSE "failed")
          /\ (queue # <<>> /\ Head(queue) = s /\ StartSpawnFail) =>
                 /\ DictGet(results', s) = FALSE
                 /\ ClientStatus(s)' = "failed"]_vars


---------------------------------------------------------------------------
(* The raw per-server results in the aggregate *)

\* C27: in a returned aggregate, server_results has an entry for every
\* targeted server and is the dict the loop built, each entry being the result
\* that server's (last) call returned; consolidation changes no entry.
C27_ServerResultsRetained ==
    /\ []((pc = "fan_ret" /\ ~ret.value.raised) =>
             /\ ret.value.server_results = results
             /\ DictKeys(ret.value.server_results) = ToSet(targets.servers))
    /\ [][/\ \A v \in FanResponses :
                (CallResponse(v) /\ targets.method # "call_tool")
                    => DictGet(results', cur) = v
          /\ (FanEnd /\ ~ret'.value.raised)
                => ret'.value.server_results = results]_vars

\* C27 witness: an aggregate came back whose server_results holds the failed
\* result of A next to the successful result of B
C27_Witness ==
    /\ pc = "fan_ret" /\ ~ret.value.raised
    /\ ret.value.server_results =
           <<<<"A", FailSubs(<<<<65>>>>)>>, <<"B", OkSubs(<<<<97>>, <<97, 98>>>>)>>>>
    /\ ret.value.failed_servers = <<"A">>


---------------------------------------------------------------------------
(* Where the consolidated subdomains come from *)

\* every item carried by the results of the servers named in `names`
ReportedBy(res, names) ==
    UNION {ToSet(res[i][2].subs) \cup ToSet(res[i][2].comb) :
              i \in {j \in DOMAIN res : res[j][1] \in names}}

\* C29: in a returned aggregate every consolidated subdomain was reported by a
\* server in successful_servers, so an item carried only by results of servers
\* in failed_servers is never included, and total_count is the number of
\* items of the consolidated list.
C29_SubdomainsFromSuccessfulOnly ==
    (pc = "fan_ret" /\ ~ret.value.raised) =>
        /\ ToSet(ret.value.subdomains)
               \subseteq ReportedBy(results, ToSet(ret.value.successful_servers))
        /\ ret.value.total_count = Len(ret.value.subdomains)
        /\ ret.value.total_count = Cardinality(ToSet(ret.value.subdomains))

\* C29 witness: A failed while carrying "A", B succeeded with "a"; only "a"
\* was consolidated
C29_Witness ==
    /\ pc = "fan_ret" /\ ~ret.value.raised
    /\ results = <<<<"A", FailSubs(<<<<65>>>>)>>, <<"B", OkSubs(<<<<97>>>>)>>>>
    /\ ret.value.failed_servers = <<"A">>
    /\ ret.value.subdomains = <<<<97>>>>
    /\ ret.value.total_count = 1


---------------------------------------------------------------------------
(* Disabled servers *)

ClientFanNext ==
    \/ ClientNext
    \/ \E m \in Methods : FanBegin(m, <<>>, FALSE)
    \/ FanEnd

\* MCPClient driven by one caller: start, stop, direct tool calls and fan-outs
\* over the enabled servers
SpecClientFan == ClientInit /\ [][ClientFanNext]_vars

\* C30: start_all_servers returns an entry for every configured server, with
\* False for every disabled one; no process is ever spawned for a disabled
\* server; a fan-out called without a server list targets exactly the enabled
\* servers.
C30_DisabledServersSkipped ==
    /\ [](/\ pc = "sa_ret" =>
                /\ DictKeys(ret.value) = Servers
                /\ \A s \in Servers : ~enabled[s] => DictGet(ret.value, s) = FALSE
          /\ \A s \in Servers :
                ~enabled[s] =>
                    /\ process[s] = "none" /\ orphans[s] = 0
                    /\ spawned[s] = None /\ spawnLog[s] = "none"
          /\ (pc = "fan_ret" /\ ~targets.explicit /\ ~ret.value.raised) =>
                DictKeys(ret.value.server_results) = {s \in Servers : enabled[s]})
    /\ [][\A m \in Methods :
             FanBegin(m, <<>>, FALSE) =>
                 /\ ToSet(targets'.servers) = {s \in Servers : enabled[s]}
                 /\ Len(targets'.servers) = Cardinality({s \in Servers : enabled[s]})]_vars

\* C30 witness: start_all_servers returned True for the enabled A and False
\* for the disabled B, for which nothing was spawned
C30_Witness ==
    /\ pc = "sa_ret"
    /\ enabled["A"] /\ ~enabled["B"]
    /\ ret.value = <<<<"A", TRUE>>, <<"B", FALSE>>>>
    /\ process["B"] = "none"

\* C30, second case: a fan-out without a server list returned the result of
\* the enabled A only
C30_FanOverEnabled ==
    /\ pc = "fan_ret" /\ ~targets.explicit /\ ~ret.value.raised
    /\ enabled["A"] /\ ~enabled["B"]
    /\ targets.servers = <<"A">>
    /\ DictKeys(ret.value.server_results) = {"A"}


---------------------------------------------------------------------------
(* Concurrent callers: tasks of one event loop calling call_tool *)

\* task t has written its request and has not got a response yet
InFlight(t) == tasks[t].pc \in {"sent", "reading", "blocked"}

\* the event loop can run a task: no task is inside a blocking call.
\* AmasseMCPClient reads the Popen pipe with a synchronous readline(), which
\* holds the loop's thread; MCPClient awaits its stream reader
LoopFree == \A t \in Tasks : tasks[t].pc # "blocked"

\* what call_tool returns for a task: the response to request n, 0 for an error
TaskDone(t, n) == [tasks EXCEPT ![t].pc = "done", ![t].ret = n]

\* MCPClient.call_tool up to `await server.process.stdin.drain()`
ClientTaskWrite(t, s) ==
    /\ impl = "client" /\ LoopFree
    /\ tasks[t].pc = "idle"
    /\ CallToolWrites(s)
    /\ Len(sent[s]) < MaxSent
    /\ sent' = [sent EXCEPT ![s] = Append(@, ClientRequest)]
    /\ tasks' = [tasks EXCEPT ![t] =
                    [pc |-> "sent", op |-> "call_tool", server |-> s,
                     req |-> Len(sent[s]) + 1, ret |-> 0]]
        /\ UNCHANGED <<process, orphans, status, configs, order, enabled, impl,
                   targets, pc, cur, queue, results, spawnLog, ret, raised,
                   scope, spawned, stdout, stdio>>

\* MCPClient.call_tool: `await server.process.stdout.readline()`. A buffered
\* line is returned at once; StreamReader raises RuntimeError when another
\* coroutine already waits on the stream, and call_tool returns an error dict;
\* otherwise the task is parked until data arrives
ClientTaskReadline(t) ==
    /\ impl = "client" /\ LoopFree
    /\ tasks[t].pc = "sent"
    /\ (LET s == tasks[t].server IN
          IF stdout[s].buf # <<>>
          THEN /\ tasks' = TaskDone(t, Head(stdout[s].buf))
               /\ stdout' = [stdout EXCEPT ![s].buf = Tail(@)]
          ELSE IF \E u \in Tasks \ {t} :
                      tasks[u].pc = "reading" /\ tasks[u].server = s
          THEN /\ tasks' = TaskDone(t, 0)
               /\ UNCHANGED stdout
          ELSE /\ tasks' = [tasks EXCEPT ![t].pc = "reading"]
               /\ UNCHANGED stdout)
        /\ UNCHANGED <<process, orphans, sent, status, configs, order, enabled,
                   impl, targets, pc, cur, queue, results, spawnLog, ret,
                   raised, scope, spawned, stdio>>

\* MCPClient.call_tool: the parked readline() is woken by a line
ClientTaskWake(t) ==
    /\ impl = "client" /\ LoopFree
    /\ tasks[t].pc = "reading"
    /\ stdout[tasks[t].server].buf # <<>>
    /\ tasks' = TaskDone(t, Head(stdout[tasks[t].server].buf))
    /\ stdout' = [stdout EXCEPT ![tasks[t].server].buf = Tail(@)]
        /\ UNCHANGED <<process, orphans, sent, status, configs, order, enabled,
                   impl, targets, pc, cur, queue, results, spawnLog, ret,
                   raised, scope, spawned, stdio>>

\* AmasseMCPClient.call_tool: write, flush and enter the blocking readline()
ManagerTaskWrite(t, s) ==
    /\ impl = "manager" /\ LoopFree
    /\ tasks[t].pc = "idle"
    /\ status[s] = "running"
    /\ Len(sent[s]) < MaxSent
    /\ sent' = [sent EXCEPT ![s] = Append(@, ManagerRequest)]
    /\ tasks' = [tasks EXCEPT ![t] =
                    [pc |-> "blocked", op |-> "call_tool", server |-> s,
                     req |-> Len(sent[s]) + 1, ret |-> 0]]
        /\ UNCHANGED <<process, orphans, status, configs, order, enabled, impl,
                   targets, pc, cur, queue, results, spawnLog, ret, raised,
                   scope, spawned, stdout, stdio>>

\* AmasseMCPClient.call_tool: the blocking readline() returns a line
ManagerTaskReadline(t) ==
    /\ impl = "manager"
    /\ tasks[t].pc = "blocked"
    /\ stdout[tasks[t].server].buf # <<>>
    /\ tasks' = TaskDone(t, Head(stdout[tasks[t].server].buf))
    /\ stdout' = [stdout EXCEPT ![tasks[t].server].buf = Tail(@)]
        /\ UNCHANGED <<process, orphans, sent, status, configs, order, enabled,
                   impl, targets, pc, cur, queue, results, spawnLog, ret,
                   raised, scope, spawned, stdio>>

\* get_server_status called by a task: synchronous, it needs the loop only
TaskStatusQuery(t) ==
    /\ LoopFree
    /\ tasks[t].pc = "idle"
    /\ tasks' = [tasks EXCEPT ![t] =
                    [pc |-> "done", op |-> "get_server_status",
                     server |-> None, req |-> 0, ret |-> 0]]
        /\ UNCHANGED <<process, orphans, sent, status, configs, order, enabled,
                   impl, targets, pc, cur, queue, results, spawnLog, ret,
                   raised, scope, spawned, stdout, stdio>>

\* the task's caller takes the value and the task ends
TaskReturn(t) ==
    /\ LoopFree
    /\ tasks[t].pc = "done"
    /\ tasks' = [tasks EXCEPT ![t] = IdleTask]
        /\ UNCHANGED <<process, orphans, sent, status, configs, order, enabled,
                   impl, targets, pc, cur, queue, results, spawnLog, ret,
                   raised, scope, spawned, stdout, stdio>>

\* the server process writes the response to the oldest request it has not
\* answered yet
ServerAnswer(s) ==
    /\ process[s] = "alive"
    /\ stdout[s].next <= Len(sent[s])
    /\ stdout' = [stdout EXCEPT ![s] =
                     [next |-> @.next + 1, buf |-> Append(@.buf, @.next)]]
        /\ UNCHANGED <<process, orphans, sent, status, configs, order, enabled,
                   impl, targets, pc, cur, queue, results, spawnLog, ret,
                   raised, scope, spawned, tasks, stdio>>

\* both servers are up: the state after a successful start_all_servers /
\* connect_all
TaskInit ==
    /\ impl \in {"client", "manager"}
    /\ process = [s \in Servers |-> "alive"]
    /\ orphans = [s \in Servers |-> 0]
    /\ sent = [s \in Servers |-> <<>>]
    /\ status = [s \in Servers |-> IF impl = "manager" THEN "running" ELSE "stopped"]
    /\ configs = [s \in Servers |-> IF impl = "manager" THEN "cmd1" ELSE NoCfg]
    /\ order = IF impl = "manager" THEN ServerOrder ELSE <<>>
    /\ enabled = [s \in Servers |-> TRUE]
    /\ targets = NoTargets
    /\ pc = "idle"
    /\ cur = None
    /\ queue = <<>>
    /\ results = <<>>
    /\ spawnLog = [s \in Servers |-> "up"]
    /\ ret = NoRet
    /\ raised = FALSE
    /\ scope = None
    /\ spawned = [s \in Servers |-> IF impl = "manager" THEN "cmd1" ELSE ClientCmd]
    /\ tasks = NoTasks /\ stdout = NoStdout /\ stdio = NoStdio

TaskNext ==
    \/ \E t \in Tasks, s \in Servers : ClientTaskWrite(t, s)
    \/ \E t \in Tasks : ClientTaskReadline(t)
    \/ \E t \in Tasks : ClientTaskWake(t)
    \/ \E t \in Tasks, s \in Servers : ManagerTaskWrite(t, s)
    \/ \E t \in Tasks : ManagerTaskReadline(t)
    \/ \E t \in Tasks : TaskStatusQuery(t)
    \/ \E t \in Tasks : TaskReturn(t)
    \/ \E s \in Servers : ServerAnswer(s)

\* two tasks of one event loop calling tools on running servers
SpecTasks == TaskInit /\ [][TaskNext]_vars

\* C21: of the call_tool invocations running concurrently on one server at
\* most one is between writing its request and receiving its response, and an
\* invocation that returns a response returns the one to its own request.
C21_OneRequestInFlight ==
    /\ \A s \in Servers :
           Cardinality({t \in Tasks : InFlight(t) /\ tasks[t].server = s}) <= 1
    /\ \A t \in Tasks :
           (tasks[t].pc = "done" /\ tasks[t].op = "call_tool" /\ tasks[t].ret # 0)
               => tasks[t].ret = tasks[t].req

\* C22: while a call_tool waits for its response only the calling task is
\* suspended: another task that is ready to run (here: to query the status)
\* can take its step.
C22_OnlyCallerSuspended ==
    \A t \in Tasks, u \in Tasks :
        (t # u /\ InFlight(t) /\ tasks[u].pc = "idle")
            => ENABLED TaskStatusQuery(u)


---------------------------------------------------------------------------
(* StdIoMCPClient (src/src/mcp_client/stdio_client.py): one transport and one
   session per list_tools / call_tool invocation *)

\* the tools a caller may name
ToolNames == {"passive_subdomain_enum", "active_subdomain_enum"}

\* list_tools / call_tool: entry; the locals session and transport_cm are None
StdioBegin(op, tool) ==
    /\ stdio.pc = "idle"
    /\ stdio' = [stdio EXCEPT !.pc = "transport_enter", !.op = op, !.tool = tool,
                              !.transport = "none", !.session = "none",
                              !.localSession = FALSE, !.localTransport = FALSE,
                              !.outcome = None]
        /\ UNCHANGED <<process, orphans, sent, status, configs, order, enabled,
                   impl, targets, pc, cur, queue, results, spawnLog, ret,
                   raised, scope, spawned, tasks, stdout>>

\* the exception leaves _asession before it has returned: the locals of the
\* caller are still None, so its finally block closes nothing
AsessionRaises == [stdio EXCEPT !.pc = "done", !.outcome = "raised"]

\* _asession: transport_cm.__aenter__() raises (the server cannot be spawned)
TransportEnterRaises ==
    /\ stdio.pc = "transport_enter"
    /\ stdio' = AsessionRaises
        /\ UNCHANGED <<process, orphans, sent, status, configs, order, enabled,
                   impl, targets, pc, cur, queue, results, spawnLog, ret,
                   raised, scope, spawned, tasks, stdout>>

\* _asession: transport_cm.__aenter__() returns; the child process runs
TransportEnter ==
    /\ stdio.pc = "transport_enter"
    /\ stdio' = [stdio EXCEPT !.pc = "transport_check", !.transport = "open"]
        /\ UNCHANGED <<process, orphans, sent, status, configs, order, enabled,
                   impl, targets, pc, cur, queue, results, spawnLog, ret,
                   raised, scope, spawned, tasks, stdout>>

\* _asession: the transport is no pair: it is closed and MCPToolError is raised
TransportUnexpected ==
    /\ stdio.pc = "transport_check"
    /\ stdio' = [AsessionRaises EXCEPT !.transport = "closed"]
        /\ UNCHANGED <<process, orphans, sent, status, configs, order, enabled,
                   impl, targets, pc, cur, queue, results, spawnLog, ret,
                   raised, scope, spawned, tasks, stdout>>

\* _asession: session.__aenter__() returns
SessionEnter ==
    /\ stdio.pc = "transport_check"
    /\ stdio' = [stdio EXCEPT !.pc = "initialize", !.session = "entered"]
        /\ UNCHANGED <<process, orphans, sent, status, configs, order, enabled,
                   impl, targets, pc, cur, queue, results, spawnLog, ret,
                   raised, scope, spawned, tasks, stdout>>

\* _asession: session.__aenter__() raises
SessionEnterRaises ==
    /\ stdio.pc = "transport_check"
    /\ stdio' = AsessionRaises
        /\ UNCHANGED <<process, orphans, sent, status, configs, order, enabled,
                   impl, targets, pc, cur, queue, results, spawnLog, ret,
                   raised, scope, spawned, tasks, stdout>>

\* _asession: session.initialize() returns and the pair is handed to the caller
Initialize ==
    /\ stdio.pc = "initialize"
    /\ stdio' = [stdio EXCEPT !.pc = "request", !.localSession = TRUE,
                              !.localTransport = TRUE]
        /\ UNCHANGED <<process, orphans, sent, status, configs, order, enabled,
                   impl, targets, pc, cur, queue, results, spawnLog, ret,
                   raised, scope, spawned, tasks, stdout>>

\* _asession: session.initialize() raises (the server does not answer the
\* handshake, or exits)
InitializeRaises ==
    /\ stdio.pc = "initialize"
    /\ stdio' = AsessionRaises
        /\ UNCHANGED <<process, orphans, sent, status, configs, order, enabled,
                   impl, targets, pc, cur, queue, results, spawnLog, ret,
                   raised, scope, spawned, tasks, stdout>>

\* session.list_tools() / session.call_tool() returns or raises
StdioRequest(outcome) ==
    /\ stdio.pc = "request"
    /\ stdio' = [stdio EXCEPT !.pc = "finally_session", !.outcome = outcome]
        /\ UNCHANGED <<process, orphans, sent, status, configs, order, enabled,
                   impl, targets, pc, cur, queue, results, spawnLog, ret,
                   raised, scope, spawned, tasks, stdout>>

\* finally: session.__aexit__ returns
FinallySessionExit ==
    /\ stdio.pc = "finally_session"
    /\ stdio' = [stdio EXCEPT !.pc = "finally_transport",
                              !.session = IF stdio.localSession THEN "closed" ELSE @]
        /\ UNCHANGED <<process, orphans, sent, status, configs, order, enabled,
                   impl, targets, pc, cur, queue, results, spawnLog, ret,
                   raised, scope, spawned, tasks, stdout>>

\* finally: session.__aexit__ raises; the transport's __aexit__ is not reached
FinallySessionExitRaises(sessionAfter) ==
    /\ stdio.pc = "finally_session"
    /\ stdio.localSession
    /\ stdio' = [stdio EXCEPT !.pc = "done", !.outcome = "raised",
                              !.session = sessionAfter]
        /\ UNCHANGED <<process, orphans, sent, status, configs, order, enabled,
                   impl, targets, pc, cur, queue, results, spawnLog, ret,
                   raised, scope, spawned, tasks, stdout>>

\* finally: transport_cm.__aexit__
FinallyTransportExit ==
    /\ stdio.pc = "finally_transport"
    /\ stdio' = [stdio EXCEPT !.pc = "done",
                              !.transport = IF stdio.localTransport THEN "closed" ELSE @]
        /\ UNCHANGED <<process, orphans, sent, status, configs, order, enabled,
                   impl, targets, pc, cur, queue, results, spawnLog, ret,
                   raised, scope, spawned, tasks, stdout>>

\* the invocation is over; a transport it left open stays behind
StdioEnd ==
    /\ stdio.pc = "done"
    /\ stdio' = [NoStdio EXCEPT !.leaked =
                    IF stdio.transport = "open" /\ stdio.leaked < MaxLeaked
                    THEN stdio.leaked + 1 ELSE stdio.leaked]
        /\ UNCHANGED <<process, orphans, sent, status, configs, order, enabled,
                   impl, targets, pc, cur, queue, results, spawnLog, ret,
                   raised, scope, spawned, tasks, stdout>>

\* a StdIoMCPClient after __init__; nothing else exists
StdioInit ==
    /\ impl = "stdio"
    /\ process = [s \in Servers |-> "none"]
    /\ orphans = [s \in Servers |-> 0]
    /\ sent = [s \in Servers |-> <<>>]
    /\ status = [s \in Servers |-> "stopped"]
    /\ configs = [s \in Servers |-> NoCfg]
    /\ order = <<>>
    /\ enabled = [s \in Servers |-> TRUE]
    /\ targets = NoTargets
    /\ pc = "idle"
    /\ cur = None
    /\ queue = <<>>
    /\ results = <<>>
    /\ spawnLog = [s \in Servers |-> "none"]
    /\ ret = NoRet
    /\ raised = FALSE
    /\ scope = None
    /\ spawned = [s \in Servers |-> None]
    /\ tasks = NoTasks /\ stdout = NoStdout /\ stdio = NoStdio

StdioNext ==
    \/ StdioBegin("list_tools", None)
    \/ \E tool \in ToolNames : StdioBegin("call_tool", tool)
    \/ TransportEnterRaises \/ TransportEnter \/ TransportUnexpected
    \/ SessionEnter \/ SessionEnterRaises
    \/ Initialize \/ InitializeRaises
    \/ \E outcome \in {"returned", "raised"} : StdioRequest(outcome)
    \/ FinallySessionExit
    \/ \E sessionAfter \in {"entered", "closed"} : FinallySessionExitRaises(sessionAfter)
    \/ FinallyTransportExit
    \/ StdioEnd

\* list_tools and call_tool of one StdIoMCPClient, one invocation at a time
SpecStdio == StdioInit /\ [][StdioNext]_vars

\* C28: when a list_tools / call_tool invocation has returned or raised, the
\* transport and the session it opened are closed, also when entering the
\* session or the initialize handshake failed after the transport was opened.
C28_TransportAndSessionClosed ==
    stdio.pc = "done" =>
        /\ stdio.transport # "open"
        /\ stdio.session # "entered"

=============================================================================
